---- MODULE Spec2Model ----
(***************************************************************************)
(* The deal-sniper run: main() scans every configured search with          *)
(* scraper.scrape_blocket_search (page loop, extraction, dedup, business   *)
(* filter, insert into the Seen-Set), then sends one Discord message per   *)
(* accepted listing, a summary, and cleans the Seen-Set up.                *)
(*                                                                         *)
(* Text (titles, search names, keywords) is a sequence of one-character    *)
(* strings, so that lower(), "in" and split() are computed, not assumed.   *)
(***************************************************************************)
EXTENDS Integers, Sequences, FiniteSets, TLC

(* ------------------------------------------------------------------ text *)

Upper == <<"A", "B", "C", "D", "E", "F", "G", "H", "I", "J", "K", "L", "M",
           "N", "O", "P", "Q", "R", "S", "T", "U", "V", "W", "X", "Y", "Z">>

Lower == <<"a", "b", "c", "d", "e", "f", "g", "h", "i", "j", "k", "l", "m",
           "n", "o", "p", "q", "r", "s", "t", "u", "v", "w", "x", "y", "z">>

\* str.lower() on one character
lower_char(c) ==
    IF \E i \in 1..26 : Upper[i] = c
    THEN Lower[CHOOSE i \in 1..26 : Upper[i] = c]
    ELSE c

\* str.lower()
lower(s) == [i \in 1..Len(s) |-> lower_char(s[i])]

\* Python's  needle in hay  on strings: substring test
Contains(needle, hay) ==
    \E i \in 1..(Len(hay) - Len(needle) + 1) :
        SubSeq(hay, i, i + Len(needle) - 1) = needle

\* str.split(): the maximal runs of non-blank characters, in order
RECURSIVE split_from(_, _, _)
split_from(s, i, word) ==
    IF i > Len(s)
    THEN IF word = <<>> THEN <<>> ELSE <<word>>
    ELSE IF s[i] = " "
         THEN (IF word = <<>> THEN <<>> ELSE <<word>>) \o split_from(s, i + 1, <<>>)
         ELSE split_from(s, i + 1, Append(word, s[i]))

split(s) == split_from(s, 1, <<>>)

Range(s) == {s[i] : i \in 1..Len(s)}

(* ---------------------------------------------------------------- config *)

name_rtx == <<"G", "a", "m", "i", "n", "g", " ", "P", "C", " ", "R", "T", "X", " ", "3", "0", "8", "0">>

name_stationary == <<"A", "l", "l", " ", "S", "t", "a", "t", "i", "o", "n", "a", "r", "y", " ",
                     "C", "o", "m", "p", "u", "t", "e", "r", "s">>

name_xeon == <<"W", "o", "r", "k", "s", "t", "a", "t", "i", "o", "n", " ", "X", "e", "o", "n">>

\* the searches list of main(): name and url of each configured search
searches ==
    << [name |-> name_rtx,        url |-> "hela_sverige?q=rtx+3080&price_end=8000"],
       [name |-> name_stationary, url |-> "stationara_datorer?cg=5021"],
       [name |-> name_xeon,       url |-> "hela_sverige?q=xeon+workstation&price_end=5000"] >>

\* config.SEARCH_QUERIES: the configured searches with their price ceilings
SEARCH_QUERIES ==
    << [name |-> name_rtx,        query |-> <<"r", "t", "x", " ", "3", "0", "8", "0">>, max_price |-> 8000],
       [name |-> name_stationary, query |-> <<>>,                                       max_price |-> 15000],
       [name |-> name_xeon,       query |-> <<"x", "e", "o", "n", " ", "w", "o", "r", "k", "s", "t", "a", "t", "i", "o", "n">>,
                                                                                        max_price |-> 5000] >>

\* config.PRICE_THRESHOLDS (imported by is_profitable): the ceiling of each
\* search, keyed as is_profitable keys it
PRICE_THRESHOLDS ==
    [rtx_3080 |-> 8000, stationary_computers |-> 15000, xeon_workstation |-> 5000]

\* config.KEYWORDS (imported by is_profitable): the keyword set of each
\* search, the words of its query; the category search has no query words
KEYWORDS ==
    [rtx_3080             |-> {<<"r", "t", "x">>, <<"3", "0", "8", "0">>},
     stationary_computers |-> {},
     xeon_workstation     |-> {<<"x", "e", "o", "n">>,
                               <<"w", "o", "r", "k", "s", "t", "a", "t", "i", "o", "n">>}]

\* config.MAX_PAGES_TO_SCRAPE: the page budget of a search
MAX_PAGES_TO_SCRAPE == 2

\* the retention window main() passes to cleanup_old_listings, in days
RETENTION_DAYS == 30

\* the sanity cap of is_profitable
PRICE_CAP == 50000

(* -------------------------------------------------------------- listings *)

title_xeon_rtx == <<"X", "e", "o", "n", " ", "R", "T", "X", " ", "3", "0", "8", "0">>

title_dell == <<"D", "e", "l", "l", " ", "X", "e", "o", "n", " ", "W", "o", "r", "k", "s", "t", "a", "t", "i", "o", "n">>

\* what an extraction strategy pushes for one container
Listing(id, title, price) ==
    [id |-> id, title |-> title, price |-> price, url |-> <<"/annons/", id>>,
     source |-> "blocket"]

\* the advertisements the marketplace may show: ad 101 is shown at two
\* prices (the seller changed it), ad 102 at one
Catalog ==
    { Listing("101", title_xeon_rtx, 4500),
      Listing("101", title_xeon_rtx, 6000),
      Listing("102", title_dell, 4500) }

Ids == {l.id : l \in Catalog}

\* what try_scraping_approaches may return for one rendered page: nothing, or
\* one listing of the catalog (the pages of a search are concatenated, so an
\* advertisement shown on two pages is a repeated id of the batch)
PageContents ==
    {<<>>} \cup {<<a>> : a \in Catalog}

(* ------------------------------------------------------- business filter *)

\* "rtx 3080" and "xeon", the substrings is_profitable looks for in the
\* lower-cased search name
needle_rtx == <<"r", "t", "x", " ", "3", "0", "8", "0">>

needle_xeon == <<"x", "e", "o", "n">>

\* any(keyword in title_lower for keyword in keywords)
any_keyword_in(keywords, title_lower) ==
    \E keyword \in keywords : Contains(keyword, title_lower)

\* faulty variant: the title is matched as written, not lower-cased
is_profitable_case_sensitive(listing, search_name) ==
    LET price == listing.price
    IN  IF price <= 0 \/ price > PRICE_CAP
        THEN FALSE
        ELSE IF Contains(needle_rtx, lower(search_name))
        THEN /\ price <= PRICE_THRESHOLDS.rtx_3080
             /\ any_keyword_in(KEYWORDS.rtx_3080, listing.title)
        ELSE IF Contains(needle_xeon, lower(search_name))
        THEN /\ price <= PRICE_THRESHOLDS.xeon_workstation
             /\ any_keyword_in(KEYWORDS.xeon_workstation, listing.title)
        ELSE /\ price <= PRICE_THRESHOLDS.stationary_computers
             /\ any_keyword_in(KEYWORDS.stationary_computers, listing.title)

\* scraper.is_profitable(listing, search_name)
is_profitable(listing, search_name) ==
    LET title_lower == lower(listing.title)
        price == listing.price
    IN  IF price <= 0 \/ price > PRICE_CAP
        THEN FALSE
        ELSE IF Contains(needle_rtx, lower(search_name))
        THEN /\ price <= PRICE_THRESHOLDS.rtx_3080
             /\ any_keyword_in(KEYWORDS.rtx_3080, title_lower)
        ELSE IF Contains(needle_xeon, lower(search_name))
        THEN /\ price <= PRICE_THRESHOLDS.xeon_workstation
             /\ any_keyword_in(KEYWORDS.xeon_workstation, title_lower)
        ELSE /\ price <= PRICE_THRESHOLDS.stationary_computers
             /\ any_keyword_in(KEYWORDS.stationary_computers, title_lower)

(* ----------------------------------------------------------- search tag *)

\* "Unknown Search"
name_unknown == <<"U", "n", "k", "n", "o", "w", "n", " ", "S", "e", "a", "r", "c", "h">>

RECURSIVE first_matching_search(_, _, _)
first_matching_search(title_lower, ss, i) ==
    IF i > Len(ss)
    THEN name_unknown
    ELSE IF \E word \in Range(split(lower(ss[i].name))) : Contains(word, title_lower)
         THEN ss[i].name
         ELSE first_matching_search(title_lower, ss, i + 1)

\* main.get_search_name_for_listing(listing, searches)
get_search_name_for_listing(listing, ss) ==
    first_matching_search(lower(listing.title), ss, 1)

\* get_search_name_for_listing over the searches of main(), for each listing
\* a page can show
search_name_for == [l \in Catalog |-> get_search_name_for_listing(l, searches)]

\* is_profitable for each listing a page can show, under each search name
profitable ==
    [l \in Catalog |-> [i \in 1..Len(searches) |-> is_profitable(l, searches[i].name)]]

(* ------------------------------------------------------------- Seen-Set *)

\* the seen_listings table: a set of rows; id is its PRIMARY KEY

\* database.is_listing_seen: SELECT id FROM seen_listings WHERE id = ?
is_listing_seen(table, listing_id) ==
    \E row \in table : row.id = listing_id

\* faulty variant: INSERT OR REPLACE, the row of the id is written anew
insert_or_replace(table, row) ==
    {r \in table : r.id # row.id} \cup {row}

\* INSERT OR IGNORE: a row whose primary key is taken is ignored
insert_or_ignore(table, row) ==
    IF \E r \in table : r.id = row.id THEN table ELSE table \cup {row}

\* database.mark_listing_seen when the INSERT and the commit succeed;
\* created_at defaults to CURRENT_TIMESTAMP
mark_listing_seen(table, listing, t) ==
    insert_or_ignore(table,
        [id |-> listing.id, title |-> listing.title, price |-> listing.price,
         url |-> listing.url, source |-> "blocket", created_at |-> t])

\* faulty variant: a row as old as the window is deleted as well
cleanup_old_listings_inclusive(table, days, t) ==
    {row \in table : ~(row.created_at <= t - days)}

\* database.cleanup_old_listings(days):
\* DELETE FROM seen_listings WHERE created_at < datetime('now', '-days days')
cleanup_old_listings(table, days, t) ==
    {row \in table : ~(row.created_at < t - days)}

SeenIdsOf(table) == {row.id : row \in table}

(* ----------------------------------------------------------------- state *)

\* the days at which the clock is read: the start, and the two sides of the
\* boundary of the retention window
Times == {0, RETENTION_DAYS, RETENTION_DAYS + 1}

VARIABLES
    seen_listings,    \* the seen_listings table of listings.db (durable)
    now,              \* the clock, in days
    pc,               \* where the run is; "idle" when no process runs
    run_kind,         \* "entry": python main.py; "call": main() on the store as it is
    search_idx,       \* main: index of the search of the for loop
    browser,          \* scrape_blocket_fast: browser is not None
    page_num,         \* scrape_blocket_fast: page_num
    all_listings,     \* scrape_blocket_fast / scrape_blocket_search: all_listings
    stop_reason,      \* why the page loop of the current search ended
    fi,               \* scrape_blocket_search: position of the filter loop
    seen_ids,         \* scrape_blocket_search: seen_ids
    valid_listings,   \* scrape_blocket_search: valid_listings
    decisions,        \* what the filter loop did with each candidate so far
    all_new_listings, \* main: all_new_listings
    found_by,         \* for each listing of all_new_listings, the search that returned it
    ni,               \* main: position of the notification loop
    last_msg,         \* the last Discord message of the run and its delivery
    fetch_log,        \* the page navigations of the current search, in order
    sent,             \* number of listing messages posted in the run, per id
    prev,             \* what the previous run left behind
    cleaned,          \* how the cleanup of the run went
    call,             \* a function applied on its own: the function and its input
    result            \* what that function returned or raised

vars == <<seen_listings, now, pc, run_kind, search_idx, browser, page_num,
          all_listings, stop_reason, fi, seen_ids, valid_listings, decisions,
          all_new_listings, found_by, ni, last_msg, fetch_log, sent, prev,
          cleaned, call, result>>

durable == <<seen_listings, now>>

fast_locals == <<browser, page_num, all_listings, stop_reason>>

filter_locals == <<fi, seen_ids, valid_listings, decisions>>

main_locals == <<search_idx, all_new_listings, found_by, ni, last_msg>>

\* the functions applied on their own, outside a run
aside == <<call, result>>

history == <<run_kind, fetch_log, sent, prev, cleaned, aside>>

NoCall == [fn |-> "none"]

NoResult == [kind |-> "none"]

\* no function is applied on its own
NothingApplied == call = NoCall /\ result = NoResult

NoMsg == [id |-> "none", search_name |-> <<>>, delivery |-> "none"]

NoRun == [ended |-> "none", sent |-> {}, ids_at_exit |-> {}]

InRun == pc \notin {"idle", "done", "crashed"}

\* the locals of main() and of the functions it calls, before it runs and
\* once their frames are gone
ResetFrames ==
    /\ search_idx' = 0
    /\ browser' = FALSE
    /\ page_num' = 0
    /\ all_listings' = <<>>
    /\ stop_reason' = "none"
    /\ fi' = 0
    /\ seen_ids' = {}
    /\ valid_listings' = <<>>
    /\ decisions' = <<>>
    /\ all_new_listings' = <<>>
    /\ found_by' = <<>>
    /\ ni' = 0
    /\ last_msg' = NoMsg
    /\ fetch_log' = <<>>

ResetLocals ==
    /\ ResetFrames
    /\ sent' = [i \in Ids |-> 0]
    /\ cleaned' = "none"

\* no process runs and none has run
NoProcess ==
    /\ pc = "idle"
    /\ run_kind = "none"
    /\ search_idx = 0
    /\ browser = FALSE
    /\ page_num = 0
    /\ all_listings = <<>>
    /\ stop_reason = "none"
    /\ fi = 0
    /\ seen_ids = {}
    /\ valid_listings = <<>>
    /\ decisions = <<>>
    /\ all_new_listings = <<>>
    /\ found_by = <<>>
    /\ ni = 0
    /\ last_msg = NoMsg
    /\ fetch_log = <<>>
    /\ sent = [i \in Ids |-> 0]
    /\ cleaned = "none"
    /\ prev = NoRun

\* listings.db as init_database creates it
Init ==
    /\ seen_listings = {}
    /\ now = 0
    /\ NoProcess
    /\ NothingApplied

(* ------------------------------------------------------- process and run *)

\* python main.py, the __main__ block: listings.db is removed and created
\* again empty, then main() runs
StartProcess ==
    /\ pc = "idle"
    /\ seen_listings' = {}
    /\ pc' = "startup"
    /\ run_kind' = "entry"
    /\ ResetLocals
    /\ UNCHANGED <<now, prev, aside>>

\* main() run on the Seen-Set as it is (the pipeline run once more in the
\* same process)
CallMain ==
    /\ pc = "idle"
    /\ pc' = "startup"
    /\ run_kind' = "call"
    /\ ResetLocals
    /\ UNCHANGED <<seen_listings, now, prev, aside>>

\* main: send_startup_message, then the first search (what the table held
\* when the previous process ended is compared with the table here, at the
\* start of the run, and dropped)
SendStartup ==
    /\ pc = "startup"
    /\ pc' = "search_begin"
    /\ search_idx' = 1
    /\ prev' = [prev EXCEPT !.ids_at_exit = {}]
    /\ UNCHANGED <<durable, fast_locals, filter_locals, all_new_listings, found_by, ni,
                   last_msg, run_kind, fetch_log, sent, cleaned, aside>>

\* main: top of  for search in searches ; after the last search, line 158
NextSearch ==
    /\ pc = "search_begin"
    /\ IF search_idx <= Len(searches)
       THEN /\ pc' = "browser_start"
            /\ all_listings' = <<>>
            /\ browser' = FALSE
            /\ page_num' = 0
            /\ stop_reason' = "none"
            /\ fi' = 0
            /\ seen_ids' = {}
            /\ valid_listings' = <<>>
            /\ decisions' = <<>>
            /\ fetch_log' = <<>>
       ELSE /\ pc' = "process"
            /\ UNCHANGED <<fast_locals, filter_locals, fetch_log>>
    /\ UNCHANGED <<durable, main_locals, run_kind, sent, prev, cleaned, aside>>

(* ---------------------------------------------------- scrape_blocket_fast *)

\* faulty variant: the range takes one page more than the budget
in_page_range_one_more(n) == 1 <= n /\ n <= MAX_PAGES_TO_SCRAPE + 1

\* line 106: for page_num in range(1, MAX_PAGES_TO_SCRAPE + 1)
in_page_range(n) == 1 <= n /\ n < MAX_PAGES_TO_SCRAPE + 1

\* faulty variant: no sleep between the pages
delay_after_never(n) == FALSE

\* line 153: if page_num < MAX_PAGES_TO_SCRAPE, the delay between pages
delay_after(n) == n < MAX_PAGES_TO_SCRAPE

\* where the page loop goes with the next page_num of the range
loop_to(n) == IF in_page_range(n) THEN "goto" ELSE "finally"

\* faulty variant: the page that failed is fetched again
on_page_error_retry == "goto"

\* lines 156-159: an exception in the body of the page loop is handled by
\* the except clause of the loop body, which ends the loop
on_page_error == "page_except"

\* faulty variant: nothing takes the exception raised in the handler
on_handler_raise_unhandled == "crashed"

\* lines 158, 161: await log_detection(...) raises in the handler (the
\* function is no coroutine function); the for loop stands in the outer
\* try, whose except clause takes the exception
on_handler_raise == "setup_except"

\* logger.log_detection_sync, called by the outer handler: writes a
\* diagnostic and returns
log_detection_sync_raises == FALSE

\* async_playwright().start(), launch, new_context, new_page: any of them
\* may raise, with the playwright handle set or not
BrowserStart ==
    /\ pc = "browser_start"
    /\ \/ /\ browser' = TRUE
          /\ page_num' = 1
          /\ pc' = loop_to(1)
          /\ stop_reason' = IF in_page_range(1) THEN stop_reason ELSE "budget"
       \/ /\ browser' \in BOOLEAN
          /\ stop_reason' = "setup_error"
          /\ pc' = "setup_except"
          /\ UNCHANGED page_num
    /\ UNCHANGED <<durable, all_listings, filter_locals, main_locals, history>>

\* what the body of the page loop can do with one page
FetchOutcomes == {"error", "detected", "empty", "empty_error", "listings"}

\* one iteration of the page loop up to the delay: goto, cookie consent, the
\* detection test, try_scraping_approaches
FetchPage ==
    /\ pc = "goto"
    /\ \E outcome \in FetchOutcomes, listings \in PageContents :
        /\ (outcome = "listings") = (listings # <<>>)
        /\ fetch_log' = Append(fetch_log,
               [search |-> search_idx, page |-> page_num, outcome |-> outcome])
        /\ CASE outcome = "listings" ->
                  \* all_listings.extend(listings)
                  /\ all_listings' = all_listings \o listings
                  /\ IF delay_after(page_num)
                     THEN /\ pc' = "page_delay"
                          /\ UNCHANGED <<page_num, stop_reason>>
                     ELSE /\ page_num' = page_num + 1
                          /\ pc' = loop_to(page_num + 1)
                          /\ stop_reason' = IF in_page_range(page_num + 1)
                                            THEN stop_reason ELSE "budget"
             [] outcome = "empty" ->
                  \* if not listings: ... break
                  /\ pc' = "finally"
                  /\ stop_reason' = "empty"
                  /\ UNCHANGED <<all_listings, page_num>>
             [] outcome = "empty_error" ->
                  \* ENABLE_SCREENSHOTS: datetime is not imported, NameError
                  /\ pc' = on_page_error
                  /\ stop_reason' = "empty"
                  /\ UNCHANGED <<all_listings, page_num>>
             [] outcome = "detected" ->
                  \* await log_detection(...): log_detection is no coroutine
                  \* function, the await raises and the break is not reached
                  /\ pc' = on_page_error
                  /\ stop_reason' = "detected"
                  /\ UNCHANGED <<all_listings, page_num>>
             [] outcome = "error" ->
                  \* goto timeout, network error, evaluate error
                  /\ pc' = on_page_error
                  /\ stop_reason' = "error"
                  /\ UNCHANGED <<all_listings, page_num>>
    /\ UNCHANGED <<durable, browser, filter_locals, main_locals,
                   run_kind, sent, prev, cleaned, aside>>

\* await asyncio.sleep(REQUEST_DELAY), then the next page_num of the range
PageDelay ==
    /\ pc = "page_delay"
    /\ page_num' = page_num + 1
    /\ pc' = loop_to(page_num + 1)
    /\ stop_reason' = IF in_page_range(page_num + 1) THEN stop_reason ELSE "budget"
    /\ UNCHANGED <<durable, browser, all_listings, filter_locals,
                   main_locals, history>>

\* except Exception of the page body: logger.error, then
\* await log_detection(...) raises in the handler and leaves the loop
PageExcept ==
    /\ pc = "page_except"
    /\ pc' = on_handler_raise
    /\ IF on_handler_raise = "crashed"
       THEN ResetFrames
       ELSE UNCHANGED <<fast_locals, filter_locals, main_locals, fetch_log>>
    /\ UNCHANGED <<durable, run_kind, sent, prev, cleaned, aside>>

\* the outer except Exception: logger.error, log_detection_sync
SetupExcept ==
    /\ pc = "setup_except"
    /\ IF log_detection_sync_raises
       THEN pc' = "crashed" /\ ResetFrames
       ELSE /\ pc' = "finally"
            /\ UNCHANGED <<fast_locals, filter_locals, main_locals, fetch_log>>
    /\ UNCHANGED <<durable, run_kind, sent, prev, cleaned, aside>>

\* finally: browser.stop(); return all_listings; scrape_blocket_search
\* returns [] at once when nothing was scraped
FastReturn ==
    /\ pc = "finally"
    /\ browser' = FALSE
    /\ page_num' = 0
    /\ stop_reason' = "none"
    /\ fetch_log' = <<>>
    /\ IF all_listings = <<>>
       THEN pc' = "search_end" /\ fi' = 0
       ELSE pc' = "filter" /\ fi' = 1
    /\ seen_ids' = {}
    /\ valid_listings' = <<>>
    /\ decisions' = <<>>
    /\ UNCHANGED <<durable, all_listings, main_locals, run_kind, sent, prev, cleaned, aside>>

(* -------------------------------------------------- scrape_blocket_search *)

\* faulty variant: the batch-local id set is never consulted
in_batch_never(listing, ids) == FALSE

\* line 323: if listing['id'] in seen_ids: continue
in_batch(listing, ids) == listing.id \in ids

\* what the store does on the SELECT of is_listing_seen and on the INSERT
\* of mark_listing_seen: "raise" leaves the function as an exception,
\* "insert_error" is the exception mark_listing_seen catches and prints
CheckOutcomes == {"ok", "raise"}

MarkOutcomes == {"ok", "insert_error", "raise"}

\* the table after mark_listing_seen(listing) under a store outcome
marked(table, listing, t, outcome) ==
    IF outcome = "ok" THEN mark_listing_seen(table, listing, t) ELSE table

\* one iteration of  for listing in all_listings ; an exception of the store
\* that nothing catches leaves scrape_blocket_search and main()
FilterItem ==
    /\ pc = "filter"
    /\ fi <= Len(all_listings)
    /\ LET listing == all_listings[fi]
           Continue(decision) ==
               /\ decisions' = Append(decisions, decision)
               /\ fi' = fi + 1
               /\ UNCHANGED <<pc, fast_locals, main_locals, fetch_log>>
           Raise ==
               /\ pc' = "crashed"
               /\ ResetFrames
       IN  IF in_batch(listing, seen_ids)
           THEN /\ Continue("duplicate")
                /\ UNCHANGED <<seen_ids, valid_listings, seen_listings>>
           ELSE \E check \in CheckOutcomes :
                  IF check = "raise"
                  THEN Raise /\ UNCHANGED seen_listings
                  ELSE IF is_listing_seen(seen_listings, listing.id)
                  THEN /\ Continue("seen")
                       /\ seen_ids' = seen_ids \cup {listing.id}
                       /\ UNCHANGED <<valid_listings, seen_listings>>
                  ELSE IF profitable[listing][search_idx]
                  THEN \E mark \in MarkOutcomes :
                         /\ seen_listings' = marked(seen_listings, listing, now, mark)
                         /\ IF mark = "raise"
                            THEN Raise
                            ELSE /\ Continue(IF mark = "ok" THEN "accepted"
                                                            ELSE "accepted_unmarked")
                                 /\ seen_ids' = seen_ids \cup {listing.id}
                                 /\ valid_listings' = Append(valid_listings, listing)
                  ELSE /\ Continue("rejected")
                       /\ seen_ids' = seen_ids \cup {listing.id}
                       /\ UNCHANGED <<valid_listings, seen_listings>>
    /\ UNCHANGED <<now, run_kind, sent, prev, cleaned, aside>>

\* end of the filter loop: return valid_listings
FilterReturn ==
    /\ pc = "filter"
    /\ fi > Len(all_listings)
    /\ pc' = "search_end"
    /\ UNCHANGED <<durable, fast_locals, filter_locals, main_locals, history>>

(* ------------------------------------------------------------------ main *)

\* all_new_listings.extend(new_listings) and the next search of the loop
SearchEnd ==
    /\ pc = "search_end"
    /\ all_new_listings' = all_new_listings \o valid_listings
    /\ found_by' = found_by \o [i \in 1..Len(valid_listings) |-> search_idx]
    /\ search_idx' = search_idx + 1
    /\ pc' = "search_begin"
    /\ UNCHANGED <<durable, fast_locals, filter_locals, ni, last_msg, history>>

\* line 162: if all_new_listings
Process ==
    /\ pc = "process"
    /\ IF all_new_listings # <<>>
       THEN pc' = "notify" /\ ni' = 1
       ELSE pc' = "summary" /\ UNCHANGED ni
    /\ UNCHANGED <<durable, fast_locals, filter_locals, search_idx,
                   all_new_listings, found_by, last_msg, history>>

\* what requests.post does in send_discord_message: status 204, status 429
\* (rate limit, with the time to wait), another status, or an exception
Deliveries == {"204", "429", "status", "exception"}

\* faulty variant: an exception while sending leaves send_discord_message
after_delivery_raise(delivery) ==
    IF delivery = "exception" THEN "crashed" ELSE "notify_delay"

\* send_discord_message lines 52-58: status 204 is printed as sent, any
\* other status is printed as failed, an exception is caught and printed;
\* the function returns in each case and main() goes on to its sleep
after_delivery(delivery) == "notify_delay"

\* the message of main.py lines 164-168 for one listing, and its delivery
message_for(listing, delivery) ==
    [id |-> listing.id,
     search_name |-> search_name_for[listing],
     delivery |-> delivery]

\* the verdict tier main() holds for a listing when it notifies it: main()
\* passes every listing of all_new_listings to send_discord_message and
\* calls no evaluator (ai_judge and discord_webhook are not imported)
verdict_in_run(listing) == "not_evaluated"

\* get_search_name_for_listing and send_discord_message for one listing
Notify ==
    /\ pc = "notify"
    /\ \E delivery \in Deliveries :
          last_msg' = message_for(all_new_listings[ni], delivery)
    /\ sent' = [sent EXCEPT ![all_new_listings[ni].id] = @ + 1]
    /\ pc' = after_delivery(last_msg'.delivery)
    /\ UNCHANGED <<durable, fast_locals, filter_locals, search_idx,
                   all_new_listings, found_by, ni, run_kind, fetch_log, prev, cleaned,
                   aside>>

\* await asyncio.sleep(1), then the next listing of the loop
NotifyDelay ==
    /\ pc = "notify_delay"
    /\ ni' = ni + 1
    /\ pc' = IF ni + 1 > Len(all_new_listings) THEN "summary" ELSE "notify"
    /\ last_msg' = NoMsg
    /\ UNCHANGED <<durable, fast_locals, filter_locals, search_idx,
                   all_new_listings, found_by, history>>

\* send_summary_message
Summary ==
    /\ pc = "summary"
    /\ pc' = "cleanup"
    /\ UNCHANGED <<durable, fast_locals, filter_locals, main_locals, history>>

\* requests.post of the startup message, of a listing message or of the
\* summary (main.py lines 72, 50, 99) is called without a timeout: when the
\* connection stays open and no answer comes, the call does not return
PostBlocks ==
    /\ pc \in {"startup", "notify", "summary"}
    /\ pc' = "posting"
    /\ UNCHANGED <<durable, fast_locals, filter_locals, main_locals, history>>

\* faulty variant: nothing takes the exception of the cleanup
on_cleanup_error_unhandled == "crashed"

\* lines 181-183: except Exception around the cleanup: two prints, and main()
\* returns
on_cleanup_error == "done"

\* try: database.cleanup_old_listings(30)  except Exception: print
\* (the DELETE is committed, or the store raises and the table is as it was)
Cleanup ==
    /\ pc = "cleanup"
    /\ \/ /\ seen_listings' = cleanup_old_listings(seen_listings, RETENTION_DAYS, now)
          /\ cleaned' = "deleted"
          /\ pc' = "done"
          /\ UNCHANGED <<fast_locals, filter_locals, main_locals, fetch_log>>
       \/ /\ UNCHANGED seen_listings
          /\ pc' = on_cleanup_error
          /\ IF on_cleanup_error = "crashed"
             THEN cleaned' = "none" /\ ResetFrames
             ELSE /\ cleaned' = "failed"
                  /\ UNCHANGED <<fast_locals, filter_locals, main_locals, fetch_log>>
    /\ UNCHANGED <<now, run_kind, sent, prev, aside>>

(* ----------------------------------------------------------- environment *)

\* what a run leaves behind when it ends
Left(how) ==
    [ended |-> how, sent |-> {i \in Ids : sent[i] > 0},
     ids_at_exit |-> SeenIdsOf(seen_listings)]

\* the process ends: main() returned, or an exception left main()
Exit ==
    /\ pc \in {"done", "crashed"}
    /\ prev' = Left(pc)
    /\ pc' = "idle"
    /\ run_kind' = "none"
    /\ ResetLocals
    /\ UNCHANGED <<durable, aside>>

\* the process is terminated between two steps of a run
Abort ==
    /\ InRun
    /\ prev' = Left("aborted")
    /\ pc' = "idle"
    /\ run_kind' = "none"
    /\ ResetLocals
    /\ UNCHANGED <<durable, aside>>

\* time passes between two runs (only the age of the rows of the table can
\* be observed, so the clock is left alone while the table is empty)
Tick ==
    /\ pc = "idle"
    /\ seen_listings # {}
    /\ \E t \in Times : t > now /\ now' = t
    /\ UNCHANGED <<seen_listings, pc, fast_locals, filter_locals, main_locals, history>>

Next ==
    \/ StartProcess
    \/ CallMain
    \/ SendStartup
    \/ NextSearch
    \/ BrowserStart
    \/ FetchPage
    \/ PageDelay
    \/ PageExcept
    \/ SetupExcept
    \/ FastReturn
    \/ FilterItem
    \/ FilterReturn
    \/ SearchEnd
    \/ Process
    \/ Notify
    \/ NotifyDelay
    \/ Summary
    \/ PostBlocks
    \/ Cleanup
    \/ Exit
    \/ Abort
    \/ Tick

Spec == Init /\ [][Next]_vars

\* the steps of a run: the event loop goes on with main() until it returns
\* or an exception leaves it
RunStep ==
    \/ SendStartup
    \/ NextSearch
    \/ BrowserStart
    \/ FetchPage
    \/ PageDelay
    \/ PageExcept
    \/ SetupExcept
    \/ FastReturn
    \/ FilterItem
    \/ FilterReturn
    \/ SearchEnd
    \/ Process
    \/ Notify
    \/ NotifyDelay
    \/ Summary
    \/ PostBlocks
    \/ Cleanup

\* the tables an earlier run can have left: empty, or one row inserted at
\* day 0
StoresLeft == {{}} \cup {mark_listing_seen({}, l, 0) : l \in Catalog}

OneRunInit ==
    /\ seen_listings \in StoresLeft
    /\ now \in Times
    /\ NoProcess
    /\ NothingApplied

\* one run of the program, by either way of starting it, and its end
OneRunNext ==
    \/ prev.ended = "none" /\ StartProcess
    \/ prev.ended = "none" /\ CallMain
    \/ RunStep
    \/ Exit
    \/ Abort

\* a started run is not left waiting: asyncio.run(main()) drives main() on
\* until it returns or an exception leaves it (the process may still be
\* terminated from outside, which is Abort)
OneRunSpec == OneRunInit /\ [][OneRunNext]_vars /\ WF_vars(RunStep)

(* ------------------------------------------------------------- evaluator *)

\* the keys of the listing analyze_listing puts into its prompt (lines 13-16)
prompt_fields == {"title", "price", "site", "query"}

\* the fields of a verdict (line 105)
required_fields ==
    {"verdict", "reason", "estimated_market_value", "estimated_profit",
     "profit_percentage", "comparison_count"}

\* the numeric fields of a verdict
numeric_fields == required_fields \ {"verdict", "reason"}

\* the values an answer of the evaluator gives the fields it holds
SampleNumber ==
    [estimated_market_value |-> 6000, estimated_profit |-> 1300,
     profit_percentage |-> 28, comparison_count |-> 3]

\* the tiers of the response format (line 67)
Tiers == {"HOT", "GOOD", "FAIR", "BAD"}

\* what the evaluator may write into the verdict field: a tier, or a word
\* that is none
AnsweredTiers == Tiers \cup {"MAYBE"}

\* the JSON objects of the evaluator: any of the fields may be missing
field_value(f, tier) ==
    IF f = "verdict" THEN tier
    ELSE IF f = "reason" THEN "r"
    ELSE SampleNumber[f]

JsonObjects ==
    {[f \in F |-> field_value(f, tier)] :
        F \in SUBSET required_fields, tier \in AnsweredTiers}

\* the text of the 'response' key: JSON or not, an object or another JSON
\* value, bare or inside a code fence
ResponseTexts ==
    [fence : {"none", "json", "plain"}, valid : {FALSE}]
        \cup [fence : {"none"}, valid : {TRUE}, is_object : {FALSE}]
        \cup [fence : {"none", "json", "plain"}, valid : {TRUE}, is_object : {TRUE},
              value : JsonObjects]

\* what session.post and resp.json() give: an exception (evaluator
\* unreachable), a body that is no JSON, a JSON body without the 'response'
\* key (an error answer), or a JSON body with it
Replies ==
    {[kind |-> "unreachable"], [kind |-> "not_json"], [kind |-> "no_response_key"]}
        \cup [kind : {"response"}, text : ResponseTexts]

\* the listings analyze_listing is given: the listings of the pipeline, and
\* listings that carry the site and the query as well
JudgeListings ==
    Catalog \cup
    {[title |-> l.title, price |-> l.price, url |-> l.url,
      site |-> "blocket", query |-> name_xeon] : l \in Catalog}

Raised(error) == [kind |-> "raise", error |-> error]

Returned(value) == [kind |-> "return", value |-> value]

\* the verdict of the except clauses (lines 114-121, 124-131)
bad_verdict(reason) ==
    [verdict |-> "BAD", reason |-> reason, estimated_market_value |-> 0,
     estimated_profit |-> 0, profit_percentage |-> 0, comparison_count |-> 0]

\* faulty variant: a missing field resets every numeric field
fill_missing_reset(decision) ==
    [f \in required_fields |->
        IF f \in numeric_fields /\ DOMAIN decision # required_fields THEN 0
        ELSE IF f \in DOMAIN decision THEN decision[f]
        ELSE IF f = "reason" THEN "Missing field in AI response" ELSE 0]

\* lines 105-108: a field the answer lacks is set to 0 (the reason to a text)
fill_missing(decision) ==
    [f \in DOMAIN decision \cup required_fields |->
        IF f \in DOMAIN decision THEN decision[f]
        ELSE IF f = "reason" THEN "Missing field in AI response" ELSE 0]

\* lines 95-110: the text is stripped and taken out of its code fence,
\* json.loads parses it, the missing fields are filled in
handle_text(text) ==
    IF ~text.valid
    THEN Returned(bad_verdict("AI returned invalid JSON format"))
    ELSE IF ~text.is_object
    THEN \* 'field not in decision' or the item assignment raises TypeError
         Returned(bad_verdict("Error during analysis"))
    ELSE Returned(fill_missing(text.value))

\* the default of result.get('response', ...) at line 92
default_response ==
    [fence |-> "none", valid |-> TRUE, is_object |-> TRUE,
     value |-> bad_verdict("AI failed to respond")]

\* lines 78-131: the try block of analyze_listing and its except clauses
handle_reply(reply) ==
    IF reply.kind \in {"unreachable", "not_json"}
    THEN Returned(bad_verdict("Error during analysis"))
    ELSE IF reply.kind = "no_response_key"
    THEN handle_text(default_response)
    ELSE handle_text(reply.text)

\* lines 8-76: the prompt is built before the try block; a key the listing
\* lacks raises KeyError out of analyze_listing
build_prompt(listing) ==
    IF prompt_fields \subseteq DOMAIN listing
    THEN [kind |-> "posted"]
    ELSE Raised("KeyError")

(* ------------------------------------------------------------ extraction *)

Digits == <<"0", "1", "2", "3", "4", "5", "6", "7", "8", "9">>

digit_value(c) == CHOOSE d \in 0..9 : Digits[d + 1] = c

\* priceText.replace(/[^0-9]/g, '')
keep_digits(text) == SelectSeq(text, LAMBDA c : c \in Range(Digits))

RECURSIVE parse_int_from(_, _, _)
parse_int_from(ds, i, acc) ==
    IF i > Len(ds) THEN acc
    ELSE parse_int_from(ds, i + 1, 10 * acc + digit_value(ds[i]))

\* the digits a text starts with
RECURSIVE leading_digits(_)
leading_digits(text) ==
    IF text = <<>> \/ Head(text) \notin Range(Digits) THEN <<>>
    ELSE <<Head(text)>> \o leading_digits(Tail(text))

\* faulty variant: parseInt of the text as it stands, which stops at the
\* first character that is no digit
parse_price_leading(text) ==
    IF leading_digits(text) = <<>> THEN 0 ELSE parse_int_from(leading_digits(text), 1, 0)

\* parseInt(...) || 0 : no digit gives NaN, and NaN || 0 is 0
parse_price(text) ==
    IF keep_digits(text) = <<>> THEN 0 ELSE parse_int_from(keep_digits(text), 1, 0)

RECURSIVE trim_left(_)
trim_left(text) ==
    IF text # <<>> /\ Head(text) = " " THEN trim_left(Tail(text)) ELSE text

RECURSIVE trim_right(_)
trim_right(text) ==
    IF text # <<>> /\ text[Len(text)] = " "
    THEN trim_right(SubSeq(text, 1, Len(text) - 1))
    ELSE text

\* textContent?.trim() || ''
trim(text) == trim_right(trim_left(text))

\* the positions of character c in text
positions(c, text) == {i \in 1..Len(text) : text[i] = c}

Max(S) == CHOOSE m \in S : \A n \in S : n <= m

Min(S) == CHOOSE m \in S : \A n \in S : m <= n

\* url.split('/').pop() : what follows the last slash
last_segment(url) ==
    IF positions("/", url) = {} THEN url
    ELSE SubSeq(url, Max(positions("/", url)) + 1, Len(url))

\* .split('?')[0] : what stands before the first question mark
before_query(segment) ==
    IF positions("?", segment) = {} THEN segment
    ELSE SubSeq(segment, 1, Min(positions("?", segment)) - 1)

\* id: url.split('/').pop().split('?')[0]
id_of(url) == before_query(last_segment(url))

\* an element querySelector did not find, and one it found, with its text
\* (for a link: its href)
Missing == [present |-> FALSE]

Elem(text) == [present |-> TRUE, text |-> text]

href_101 == <<"/", "a", "n", "n", "o", "n", "s", "/", "1", "0", "1">>

href_102_query == <<"/", "a", "n", "n", "o", "n", "s", "/", "1", "0", "2", "?", "q">>

href_no_id == <<"/", "a", "n", "n", "o", "n", "s", "/">>

title_pc == <<" ", "P", "C", " ">>

title_mac == <<"M", "a", "c">>

price_4500 == <<"4", " ", "5", "0", "0", " ", "k", "r">>

price_60 == <<"6", "0">>

price_12345 == <<"1", "2", " ", "3", "4", "5", " ", "k", "r">>

price_zero == <<"0", " ", "k", "r">>

Container(title, price, link, raises) ==
    [title |-> title, price |-> price, link |-> link, raises |-> raises]

c_good == Container(Elem(title_pc), Elem(price_4500), Elem(href_101), FALSE)

c_query == Container(Elem(title_mac), Elem(price_60), Elem(href_102_query), FALSE)

c_no_price == Container(Elem(title_mac), Missing, Elem(href_101), FALSE)

c_no_digits == Container(Elem(title_mac), Elem(<<"k", "r">>), Elem(href_101), FALSE)

c_blank_title == Container(Elem(<<" ">>), Elem(price_60), Elem(href_101), FALSE)

c_no_link == Container(Elem(title_mac), Elem(price_60), Missing, FALSE)

c_raises == Container(Elem(title_mac), Elem(price_60), Elem(href_101), TRUE)

c_no_id == Container(Elem(title_mac), Elem(price_60), Elem(href_no_id), FALSE)

c_grouped == Container(Elem(title_mac), Elem(price_12345), Elem(href_101), FALSE)

c_zero_price == Container(Elem(title_mac), Elem(price_zero), Elem(href_101), FALSE)

\* the elements a selector of scrape_modern_blocket or scrape_article_based
\* can match
Containers ==
    {c_good, c_query, c_no_price, c_no_digits, c_blank_title, c_no_link, c_raises,
     c_no_id, c_grouped, c_zero_price}

\* the largest number of containers of a page
MaxContainers == 3

SeqsUpTo(S, n) == UNION {[1..k -> S] : k \in 0..n}

\* lines 203-209: the listing pushed for a container
parsed(c) ==
    [id |-> id_of(c.link.text), title |-> trim(c.title.text),
     price |-> parse_price(c.price.text), url |-> c.link.text, source |-> "blocket"]

\* lines 191-212: the container gets as far as items.push
pushed(c) ==
    /\ ~c.raises
    /\ c.title.present /\ c.price.present /\ c.link.present
    /\ trim(c.title.text) # <<>>
    /\ parse_price(c.price.text) > 0

\* faulty variant: the loop over the containers ends at the first container
\* that is not pushed
RECURSIVE scrape_elements_until_bad(_)
scrape_elements_until_bad(containers) ==
    IF containers = <<>> \/ ~pushed(Head(containers)) THEN <<>>
    ELSE <<parsed(Head(containers))>> \o scrape_elements_until_bad(Tail(containers))

\* the script of scrape_modern_blocket (lines 186-215) and of
\* scrape_article_based (219-248) over the elements its selector matched
scrape_elements(containers) ==
    LET kept == SelectSeq(containers, pushed)
    IN  [i \in 1..Len(kept) |-> parsed(kept[i])]

\* a link of scrape_fallback: whether link.closest finds a container, the
\* title element of the container if any, the text of the link, the price
\* element, the href
Link(closest, title, link_text, price, href, raises) ==
    [closest |-> closest, title |-> title, link_text |-> link_text, price |-> price,
     href |-> href, raises |-> raises]

l_good == Link(TRUE, Elem(title_pc), title_mac, Elem(price_4500), href_101, FALSE)

l_link_title == Link(TRUE, Missing, title_mac, Elem(price_60), href_102_query, FALSE)

l_no_container == Link(FALSE, Missing, title_mac, Missing, href_101, FALSE)

l_no_price == Link(TRUE, Elem(title_pc), title_mac, Missing, href_101, FALSE)

l_no_id == Link(TRUE, Elem(title_pc), title_mac, Elem(price_60), href_no_id, FALSE)

l_grouped == Link(TRUE, Elem(title_pc), title_mac, Elem(price_12345), href_101, FALSE)

l_zero_price == Link(TRUE, Elem(title_pc), title_mac, Elem(price_zero), href_101, FALSE)

Links ==
    {l_good, l_link_title, l_no_container, l_no_price, l_no_id, l_grouped,
     l_zero_price}

\* line 261: container.querySelector('h2, h3, .title') || link
title_text(l) == IF l.title.present THEN l.title.text ELSE l.link_text

parsed_link(l) ==
    [id |-> id_of(l.href), title |-> trim(title_text(l)),
     price |-> parse_price(l.price.text), url |-> l.href, source |-> "blocket"]

pushed_link(l) ==
    /\ ~l.raises
    /\ l.closest
    /\ l.price.present
    /\ trim(title_text(l)) # <<>>
    /\ parse_price(l.price.text) > 0

\* the script of scrape_fallback (lines 252-283) over the links of the page
scrape_fallback(links) ==
    LET kept == SelectSeq(links, pushed_link)
    IN  [i \in 1..Len(kept) |-> parsed_link(kept[i])]

\* faulty variant: the strategies in the opposite order
approaches_reversed ==
    <<"scrape_fallback", "scrape_article_based", "scrape_modern_blocket">>

\* line 172: approaches
approaches == <<"scrape_modern_blocket", "scrape_article_based", "scrape_fallback">>

\* await approach(page): page.evaluate raises, or the script returns its items
approach_result(approach, page) ==
    IF page[approach].raises THEN Raised("Error")
    ELSE IF approach = "scrape_fallback"
    THEN Returned(scrape_fallback(page[approach].items))
    ELSE Returned(scrape_elements(page[approach].items))

\* lines 174-182: the loop over the approaches
RECURSIVE first_yield(_, _)
first_yield(page, i) ==
    IF i > Len(approaches) THEN <<>>
    ELSE LET r == approach_result(approaches[i], page)
         IN  IF r.kind = "return" /\ r.value # <<>>
             THEN r.value
             ELSE first_yield(page, i + 1)

\* scraper.try_scraping_approaches(page)
try_scraping_approaches(page) == Returned(first_yield(page, 1))

\* what a page holds for one approach: page.evaluate raises, or the elements
\* its selector matches
Raising == [raises |-> TRUE, items |-> <<>>]

Matching(items) == [raises |-> FALSE, items |-> items]

ElementSources ==
    {Raising, Matching(<<>>), Matching(<<c_good>>), Matching(<<c_no_price>>),
     Matching(<<c_query, c_raises, c_good>>)}

LinkSources ==
    {Raising, Matching(<<>>), Matching(<<l_link_title>>), Matching(<<l_no_container>>)}

Pages ==
    [scrape_modern_blocket : ElementSources, scrape_article_based : ElementSources,
     scrape_fallback : LinkSources]

(* ------------------------------------------------- functions on their own *)

\* the variables of a run
pipeline ==
    <<seen_listings, now, pc, run_kind, search_idx, browser, page_num, all_listings,
      stop_reason, fi, seen_ids, valid_listings, decisions, all_new_listings, found_by,
      ni,
      last_msg, fetch_log, sent, prev, cleaned>>

\* the largest number of calls of mark_listing_seen applied in a row
MaxInserts == 3

\* the calls of mark_listing_seen: a listing, and the day of the call
Inserts == [listing : Catalog, t : Times]

Calls ==
    {[fn |-> "analyze_listing", listing |-> l, reply |-> [kind |-> "none"]] :
        l \in JudgeListings}
    \cup {[fn |-> "try_scraping_approaches", page |-> page] : page \in Pages}
    \cup {[fn |-> f, items |-> items] :
              f \in {"scrape_modern_blocket", "scrape_article_based"},
              items \in SeqsUpTo(Containers, MaxContainers)}
    \cup {[fn |-> "scrape_fallback", items |-> items] :
              items \in SeqsUpTo(Links, MaxContainers)}
    \cup {[fn |-> "mark_listing_seen", inserts |-> inserts] :
              inserts \in SeqsUpTo(Inserts, MaxInserts) \ {<<>>}}

UnitInit ==
    /\ seen_listings = {}
    /\ now = 0
    /\ NoProcess
    /\ call \in Calls
    /\ result = NoResult

\* analyze_listing up to the request
BuildPrompt ==
    /\ call.fn = "analyze_listing"
    /\ result = NoResult
    /\ result' = build_prompt(call.listing)
    /\ UNCHANGED <<call, pipeline>>

\* analyze_listing from the answer of the evaluator on
EvaluatorReply ==
    /\ call.fn = "analyze_listing"
    /\ result = [kind |-> "posted"]
    /\ \E reply \in Replies :
         /\ call' = [call EXCEPT !.reply = reply]
         /\ result' = handle_reply(reply)
    /\ UNCHANGED pipeline

\* try_scraping_approaches(page)
TryScrapingApproaches ==
    /\ call.fn = "try_scraping_approaches"
    /\ result = NoResult
    /\ result' = try_scraping_approaches(call.page)
    /\ UNCHANGED <<call, pipeline>>

\* the script of scrape_modern_blocket or scrape_article_based runs in the page
ScrapeElements ==
    /\ call.fn \in {"scrape_modern_blocket", "scrape_article_based"}
    /\ result = NoResult
    /\ result' = Returned(scrape_elements(call.items))
    /\ UNCHANGED <<call, pipeline>>

\* the script of scrape_fallback runs in the page
ScrapeFallback ==
    /\ call.fn = "scrape_fallback"
    /\ result = NoResult
    /\ result' = Returned(scrape_fallback(call.items))
    /\ UNCHANGED <<call, pipeline>>

\* the next call of mark_listing_seen of a sequence of calls, the first one
\* on the empty table of init_database
MarkListingSeen ==
    /\ call.fn = "mark_listing_seen"
    /\ LET k == IF result.kind = "none" THEN 0 ELSE result.applied
           table == IF result.kind = "none" THEN {} ELSE result.value
       IN  /\ k < Len(call.inserts)
           /\ result' =
                 [kind |-> "return",
                  value |-> mark_listing_seen(table, call.inserts[k + 1].listing,
                                              call.inserts[k + 1].t),
                  applied |-> k + 1]
    /\ UNCHANGED <<call, pipeline>>

UnitNext ==
    \/ BuildPrompt
    \/ EvaluatorReply
    \/ TryScrapingApproaches
    \/ ScrapeElements
    \/ ScrapeFallback
    \/ MarkListingSeen

UnitSpec == UnitInit /\ [][UnitNext]_vars

(* ------------------------------------------------------------ properties *)

RowsOf(x) == {row \in seen_listings : row.id = x}

Accepted == {"accepted", "accepted_unmarked"}

\* the candidates of the batch that came through both dedup steps
Survived == Accepted \cup {"rejected"}

\* the candidate at position k of the batch repeats an id met before it
Repeats(k) == \E j \in 1..(k - 1) : all_listings[j].id = all_listings[k].id

\* C1 (idempotent dedup): of two runs of main() in succession over the same
\* Seen-Set, the first one completed, at most one sends a notification for
\* a listing id, and the table never holds more than one row for the id; an
\* id notified by the first run has its row when the second run starts.
C1_IdempotentDedup ==
    (run_kind = "call" /\ prev.ended = "done")
        => \A x \in Ids :
             /\ ~(x \in prev.sent /\ sent[x] > 0)
             /\ Cardinality(RowsOf(x)) <= 1
             /\ (pc = "startup" /\ x \in prev.sent) => x \in prev.ids_at_exit

\* C2 (durable Seen-Set): when the program is started through its entry
\* point, every id the table held when the previous process ended is in the
\* table before the first search is scanned, and no id the previous process
\* run notified is notified by this one.
C2_DurableAcrossRestarts ==
    run_kind = "entry"
        => /\ pc = "startup" => prev.ids_at_exit \subseteq SeenIdsOf(seen_listings)
           /\ \A x \in Ids : ~(x \in prev.sent /\ sent[x] > 0)

\* C3 (insert before notify): when a notification has just been sent for a
\* listing, the id of the listing is in the Seen-Set.
C3_InsertBeforeNotify ==
    pc = "notify_delay" => last_msg.id \in SeenIdsOf(seen_listings)

\* C4 (abort tolerance): a run over the same Seen-Set that follows an
\* aborted run notifies no listing id the aborted run had notified.
C4_NoDuplicateAfterAbort ==
    (run_kind = "call" /\ prev.ended = "aborted")
        => \A x \in Ids : ~(x \in prev.sent /\ sent[x] > 0)

\* C5 (intra-batch dedup): in one call of scrape_blocket_search a candidate
\* is dropped as a duplicate exactly when its id was met earlier in the
\* batch, the accepted listings are the accepted candidates in discovery
\* order, and no two of them share an id.
C5_IntraBatchDedup ==
    pc \in {"filter", "search_end"}
        => /\ Len(decisions) <= Len(all_listings)
           /\ \A k \in 1..Len(decisions) : (decisions[k] = "duplicate") <=> Repeats(k)
           /\ valid_listings =
                SelectSeq([k \in 1..Len(decisions) |->
                               IF decisions[k] \in Accepted THEN all_listings[k] ELSE <<>>],
                          LAMBDA e : e # <<>>)
           /\ \A i, j \in 1..Len(valid_listings) :
                  i # j => valid_listings[i].id # valid_listings[j].id

C5_Witness ==
    /\ pc = "search_end"
    /\ Len(all_listings) = 2
    /\ all_listings[1].id = all_listings[2].id
    /\ all_listings[1] # all_listings[2]
    /\ decisions = <<"accepted_unmarked", "duplicate">>
    /\ Len(valid_listings) = 1

\* the acceptance rule of a configured search: price within the ceiling of
\* the search and a word of its query in the title, whatever the case
AcceptanceRule(listing, query) ==
    /\ listing.price <= query.max_price
    /\ \E keyword \in Range(split(query.query)) : Contains(keyword, lower(listing.title))

\* C6 (business filter): a candidate that came through both dedup steps is
\* accepted if and only if its price is at most the ceiling of its search
\* and its lower-cased title contains a keyword of the search.
C6_BusinessFilter ==
    pc \in {"filter", "search_end"}
        => \A k \in 1..Len(decisions) :
             decisions[k] \in Survived
                => ((decisions[k] \in Accepted)
                      <=> AcceptanceRule(all_listings[k], SEARCH_QUERIES[search_idx]))

C6_Witness ==
    /\ pc = "search_end"
    /\ Len(decisions) = 2
    /\ decisions[1] = "rejected"
    /\ all_listings[1].price > SEARCH_QUERIES[search_idx].max_price
    /\ Contains(<<"x", "e", "o", "n">>, lower(all_listings[1].title))
    /\ decisions[2] = "accepted"
    /\ all_listings[2].title # lower(all_listings[2].title)

\* C7 (empty keyword set): in a search without keywords a candidate that
\* came through both dedup steps and whose price is within (0, ceiling] is
\* accepted.
C7_EmptyKeywordSet ==
    pc \in {"filter", "search_end"}
        => \A k \in 1..Len(decisions) :
             ( /\ split(SEARCH_QUERIES[search_idx].query) = <<>>
               /\ decisions[k] \in Survived
               /\ 0 < all_listings[k].price
               /\ all_listings[k].price <= SEARCH_QUERIES[search_idx].max_price )
                => decisions[k] \in Accepted

\* the states of scrape_blocket_fast
FastPcs == {"browser_start", "goto", "page_delay", "page_except", "setup_except", "finally"}

\* the page loop of the current search is still fetching
Fetching == pc \in {"goto", "page_delay"}

LastOutcome == IF fetch_log = <<>> THEN "none" ELSE fetch_log[Len(fetch_log)].outcome

\* the page loop ended for one of the three reasons of C8
StoppedByRule == stop_reason \in {"empty", "detected", "budget"}

C8_PageLoop ==
    pc \in FastPcs
        => /\ \A i \in 1..Len(fetch_log) :
                /\ fetch_log[i].page = i
                /\ fetch_log[i].search = search_idx
           /\ \A i \in 1..(Len(fetch_log) - 1) : fetch_log[i].outcome = "listings"
           /\ Len(fetch_log) <= MAX_PAGES_TO_SCRAPE
           /\ Fetching => /\ LastOutcome \in {"none", "listings"}
                          /\ Len(fetch_log) < MAX_PAGES_TO_SCRAPE
           /\ (pc = "goto") => page_num = Len(fetch_log) + 1
           /\ (stop_reason = "empty") => LastOutcome \in {"empty", "empty_error"}
           /\ (stop_reason = "detected") => LastOutcome = "detected"
           /\ (stop_reason = "budget")
                 => LastOutcome = "listings" /\ Len(fetch_log) = MAX_PAGES_TO_SCRAPE
           /\ (LastOutcome \in {"empty", "empty_error"}) => stop_reason = "empty"
           /\ (LastOutcome = "detected") => stop_reason = "detected"
           /\ (LastOutcome = "listings" /\ Len(fetch_log) = MAX_PAGES_TO_SCRAPE)
                 => stop_reason = "budget"

\* C8 (pagination): the pages of a search are fetched in increasing index from
\* 1; fetching goes on only after a page that yielded listings and while the
\* budget lasts, and stops at the first empty page, at the first detected
\* block or with the budget; in each of the three cases the search ends and
\* main() comes to the next search (or, after the last one, to the
\* notifications), unless the process is terminated or the store raises.
C8_Pagination ==
    /\ []C8_PageLoop
    /\ \A i \in 1..Len(searches) :
          (pc \in FastPcs /\ StoppedByRule /\ search_idx = i)
              ~> \/ (pc \in {"search_begin", "process"} /\ search_idx = i + 1)
                 \/ pc \in {"idle", "crashed"}

C8_Witness ==
    /\ pc = "finally"
    /\ stop_reason = "detected"
    /\ Len(fetch_log) = MAX_PAGES_TO_SCRAPE
    /\ search_idx = 2

C9_Log ==
    pc \in FastPcs
        => /\ \A i, j \in 1..Len(fetch_log) :
                (i # j) => fetch_log[i].page # fetch_log[j].page
           /\ \A i \in 1..Len(fetch_log) :
                (fetch_log[i].outcome = "error")
                   => /\ i = Len(fetch_log)
                      /\ ~Fetching
                      /\ \A j \in 1..Len(fetch_log) : fetch_log[j].page <= fetch_log[i].page

\* the log of a search only grows by the page fetched, and is dropped only
\* when scrape_blocket_fast is left; after a fetch error it does not grow;
\* a run never comes back to a search it has left
C9_Step ==
    /\ (fetch_log' # fetch_log)
          => \/ /\ pc = "goto"
                /\ Len(fetch_log') = Len(fetch_log) + 1
                /\ SubSeq(fetch_log', 1, Len(fetch_log)) = fetch_log
                /\ LastOutcome # "error"
             \/ /\ fetch_log' = <<>>
                /\ pc' \notin FastPcs \/ pc = "search_begin"
    /\ (InRun /\ pc' \notin {"idle", "crashed"}) => search_idx' >= search_idx
    /\ (pc' = "browser_start") => search_idx' = search_idx /\ pc = "search_begin"
    /\ (pc = "search_end" /\ pc' # "idle") => search_idx' = search_idx + 1

\* C9 (no retry): a fetch error on page N ends the pagination of the search:
\* page N is not fetched again and no later page is fetched for the search
\* in the run; each page index is fetched at most once per search per run.
C9_NoRetry == []C9_Log /\ [][C9_Step]_vars

C9_Witness ==
    /\ pc = "finally"
    /\ Len(fetch_log) = 1
    /\ fetch_log[1].outcome = "error"
    /\ Len(fetch_log) < MAX_PAGES_TO_SCRAPE

\* a failure while fetching or extracting the pages of the current search
FetchFailed ==
    /\ pc \in FastPcs
    /\ \/ stop_reason \in {"setup_error", "error", "detected"}
       \/ LastOutcome = "empty_error"

\* the states of main() after the for loop over the searches
AfterScan == {"process", "notify", "notify_delay", "summary", "cleanup", "done"}

\* nothing that happens in scrape_blocket_fast leaves main(); only an
\* exception of the store in the filter loop does
C10_Step ==
    /\ (pc \in FastPcs) => pc' # "crashed"
    /\ (pc' = "crashed") => pc = "filter"

\* C10 (fetch failures do not abort the run): after a failure while fetching
\* or extracting the pages of a search, the remaining searches are scanned
\* and the run comes to the notifications and to the cleanup, unless the
\* process is terminated, the store raises in the filter loop or a message
\* posted to the webhook is never answered.
C10_FetchFailuresContained ==
    /\ [][C10_Step]_vars
    /\ [](pc \in AfterScan => search_idx = Len(searches) + 1)
    /\ \A i \in 1..Len(searches) :
          (FetchFailed /\ search_idx = i)
              ~> \/ (pc \in {"search_begin", "process"} /\ search_idx = i + 1)
                 \/ (pc = "idle" /\ prev.ended = "aborted")
                 \/ pc = "crashed"
    /\ FetchFailed
          ~> \/ pc = "done"
             \/ (pc = "idle" /\ prev.ended = "aborted")
             \/ pc = "crashed"
             \/ pc = "posting"

C10_Witness ==
    /\ pc = "finally"
    /\ stop_reason = "detected"
    /\ search_idx = 1
    /\ all_listings # <<>>

\* C11 (store failure propagates): the filter loop never goes on with a
\* listing as accepted while the store holds no row of its id: a failure of
\* the seen-check or of the insert leaves scrape_blocket_search as an error.
C11_StoreFailurePropagates ==
    pc \in {"filter", "search_end"}
        => /\ \A k \in 1..Len(decisions) :
                (decisions[k] \in Accepted)
                    => all_listings[k].id \in SeenIdsOf(seen_listings)
           /\ \A i \in 1..Len(valid_listings) :
                valid_listings[i].id \in SeenIdsOf(seen_listings)

\* the number of listings of all_new_listings with id x
Accepted_count(x) ==
    Cardinality({i \in 1..Len(all_new_listings) : all_new_listings[i].id = x})

\* the notification loop is through: a message was posted for every listing
\* of all_new_listings
AllAttempted ==
    /\ ni = IF all_new_listings = <<>> THEN 0 ELSE Len(all_new_listings) + 1
    /\ \A x \in Ids : sent[x] = Accepted_count(x)

C12_State ==
    /\ (pc \in {"cleanup", "done"}) => AllAttempted
    /\ (cleaned # "none") => pc = "done"

C12_Step ==
    /\ (pc = "cleanup") => pc' \in {"cleanup", "done", "idle"}
    /\ (pc = "cleanup" /\ pc' = "done") => sent' = sent
    /\ (cleaned = "failed" /\ pc' = "idle") => prev'.ended = "done"

\* C12 (cleanup isolation): a failure of cleanup_old_listings is caught, the
\* run ends as a completed run, and when the cleanup starts a message has
\* been posted for every accepted listing of the run.
C12_CleanupIsolated ==
    /\ []C12_State
    /\ [][C12_Step]_vars
    /\ (pc = "cleanup") ~> (pc = "done" \/ (pc = "idle" /\ prev.ended = "aborted"))

C12_Witness ==
    /\ pc = "done"
    /\ cleaned = "failed"
    /\ \E x \in Ids : sent[x] > 0
    /\ seen_listings # {}

\* the number of the first n listings of all_new_listings with id x
Count_upto(x, n) ==
    Cardinality({i \in 1..n : i <= Len(all_new_listings) /\ all_new_listings[i].id = x})

\* a delivery that failed: an error response or an exception while sending
DeliveryFailed == pc = "notify_delay" /\ last_msg.delivery # "204"

C13_State ==
    /\ (pc = "notify")
          => /\ ni \in 1..Len(all_new_listings)
             /\ \A x \in Ids : sent[x] = Count_upto(x, ni - 1)
    /\ (pc = "notify_delay")
          => /\ ni \in 1..Len(all_new_listings)
             /\ last_msg.id = all_new_listings[ni].id
             /\ \A x \in Ids : sent[x] = Count_upto(x, ni)

C13_Step ==
    /\ (pc = "notify") => pc' \in {"notify", "notify_delay", "idle", "posting"}
    /\ (DeliveryFailed /\ pc' # "idle" /\ pc' # pc)
          => /\ ni' = ni + 1
             /\ all_new_listings' = all_new_listings
             /\ pc' = IF ni < Len(all_new_listings) THEN "notify" ELSE "summary"

\* C13 (delivery failure is not fatal): after a delivery that failed, the
\* messages of the later accepted listings are posted, in the order of
\* all_new_listings, and the run goes on to the summary and the cleanup
\* (unless the process is terminated or a later message is never answered).
C13_NotifyFailureNotFatal ==
    /\ []C13_State
    /\ [][C13_Step]_vars
    /\ DeliveryFailed
          ~> \/ pc = "done"
             \/ (pc = "idle" /\ prev.ended = "aborted")
             \/ pc = "posting"

C13_Witness ==
    /\ pc = "notify_delay"
    /\ ni = 1
    /\ last_msg.delivery = "exception"
    /\ Len(all_new_listings) >= 2

\* the message of the listing at ni has just been posted and answered
Answered(delivery) ==
    /\ pc = "notify"
    /\ pc' = "notify_delay"
    /\ last_msg'.delivery = delivery

\* C14 (rate limit): a notification the endpoint answers with status 429 is
\* posted once more, so twice in all, before the loop goes on; after another
\* failure the notification is not posted again.
C14_RateLimitRetry ==
    [][ /\ Answered("429")
           => sent'[last_msg'.id] = sent[last_msg'.id] + 2
        /\ (Answered("status") \/ Answered("exception"))
           => sent'[last_msg'.id] = sent[last_msg'.id] + 1 ]_vars

\* C15 (only Hot and Good are notified): when a message has been posted for
\* a listing, the verdict tier of the listing in the run is HOT or GOOD.
C15_OnlyHotGoodNotified ==
    pc = "notify_delay"
        => verdict_in_run(all_new_listings[ni]) \in {"HOT", "GOOD"}

\* the evaluator is unreachable, answers with an error, or answers with text
\* that is no JSON
EvaluatorFailed(reply) ==
    \/ reply.kind \in {"unreachable", "not_json", "no_response_key"}
    \/ reply.kind = "response" /\ ~reply.text.valid

\* analyze_listing has returned or raised
Analyzed == call.fn = "analyze_listing" /\ result.kind \in {"return", "raise"}

\* a verdict BAD with the four figures 0
IsBadZero(v) ==
    /\ v.verdict = "BAD"
    /\ \A f \in numeric_fields : v[f] = 0

\* C16 (always a verdict): for a listing of the pipeline analyze_listing
\* returns a verdict and does not raise; when the evaluator failed, the
\* verdict is BAD with estimated_market_value, estimated_profit,
\* profit_percentage and comparison_count 0.
C16_AlwaysAVerdict ==
    Analyzed
        => /\ (call.listing \in Catalog) => result.kind = "return"
           /\ (result.kind = "return" /\ EvaluatorFailed(call.reply))
                 => IsBadZero(result.value)

\* the evaluator answered with a JSON object
AnsweredObject ==
    /\ Analyzed
    /\ call.reply.kind = "response"
    /\ call.reply.text.valid
    /\ call.reply.text.is_object

\* C17 (missing field defaults): when the answer of the evaluator is a JSON
\* object that lacks profit_percentage or another numeric field,
\* analyze_listing returns a verdict in which that field is 0 and every
\* field of the answer, the tier among them, is as the evaluator gave it.
C17_MissingFieldDefaults ==
    AnsweredObject
        => LET answer == call.reply.text.value
           IN  /\ result.kind = "return"
               /\ DOMAIN result.value = DOMAIN answer \cup required_fields
               /\ \A f \in DOMAIN answer : result.value[f] = answer[f]
               /\ \A f \in numeric_fields \ DOMAIN answer : result.value[f] = 0

C17_Witness ==
    /\ AnsweredObject
    /\ call.reply.text.fence = "json"
    /\ DOMAIN call.reply.text.value = required_fields \ {"profit_percentage"}
    /\ call.reply.text.value.verdict = "GOOD"
    /\ result.kind = "return"
    /\ result.value.profit_percentage = 0
    /\ result.value.estimated_profit = 1300
    /\ result.value.verdict = "GOOD"

\* what one approach finds in the page
ItemsOf(approach, page) ==
    IF approach = "scrape_fallback" THEN scrape_fallback(page[approach].items)
    ELSE scrape_elements(page[approach].items)

\* the approach neither raises nor comes back empty
Yields(approach, page) ==
    ~page[approach].raises /\ ItemsOf(approach, page) # <<>>

\* C18: try_scraping_approaches returns the listings of the first of
\* scrape_modern_blocket, scrape_article_based, scrape_fallback (in that
\* order) that yields at least one listing, whole and unmixed; an approach
\* that raises or finds nothing is passed over; when none yields, the result
\* is the empty list and no exception
C18_FirstYieldWins ==
    (call.fn = "try_scraping_approaches" /\ result.kind # "none") =>
        /\ result.kind = "return"
        /\ result.value =
              IF Yields("scrape_modern_blocket", call.page)
              THEN ItemsOf("scrape_modern_blocket", call.page)
              ELSE IF Yields("scrape_article_based", call.page)
              THEN ItemsOf("scrape_article_based", call.page)
              ELSE IF Yields("scrape_fallback", call.page)
              THEN ItemsOf("scrape_fallback", call.page)
              ELSE <<>>

\* the first approach raises, the second finds a container without a price,
\* and the listings of the third are returned
C18_Witness ==
    /\ call.fn = "try_scraping_approaches"
    /\ call.page["scrape_modern_blocket"].raises
    /\ call.page["scrape_article_based"] = Matching(<<c_no_price>>)
    /\ result.kind = "return"
    /\ result.value # <<>>
    /\ result.value = scrape_fallback(call.page["scrape_fallback"].items)

Strategies == {"scrape_modern_blocket", "scrape_article_based", "scrape_fallback"}

\* C19: every listing an extraction strategy returns has a non-empty id, a
\* non-empty title, a price above zero and a non-empty url; a container whose
\* URL yields no id is dropped
C19_ListingsWellFormed ==
    (call.fn \in Strategies /\ result.kind = "return") =>
        \A i \in 1..Len(result.value) :
            /\ result.value[i].id # <<>>
            /\ result.value[i].title # <<>>
            /\ result.value[i].price > 0
            /\ result.value[i].url # <<>>

\* the container lacks a title, a price or a link, or raises while it is parsed
Lacking(c) ==
    \/ c.raises
    \/ ~c.title.present \/ ~c.price.present \/ ~c.link.present
    \/ trim(c.title.text) = <<>>
    \/ parse_price(c.price.text) = 0

\* the same for a link of scrape_fallback, whose title may be its own text
LackingLink(l) ==
    \/ l.raises
    \/ ~l.closest \/ ~l.price.present
    \/ trim(title_text(l)) = <<>>
    \/ parse_price(l.price.text) = 0

\* the containers of a call that lack nothing, in the order of the page
WellFormed(c) ==
    IF call.fn = "scrape_fallback" THEN ~LackingLink(c) ELSE ~Lacking(c)

\* C20: over a page with n containers of which k lack a title, a price or a
\* link or raise while they are parsed, an extraction strategy returns exactly
\* n - k listings, those of the other containers in the order of the page, and
\* does not raise
C20_PartialRecordIsolation ==
    (call.fn \in Strategies /\ result.kind # "none") =>
        LET n == Len(call.items)
            k == Cardinality({i \in 1..n : ~WellFormed(call.items[i])})
            good == SelectSeq(call.items, WellFormed)
        IN  /\ result.kind = "return"
            /\ Len(result.value) = n - k
            /\ \A i \in 1..(n - k) :
                 /\ result.value[i].url =
                       IF call.fn = "scrape_fallback" THEN good[i].href
                       ELSE good[i].link.text
                 /\ result.value[i].title =
                       IF call.fn = "scrape_fallback" THEN trim(title_text(good[i]))
                       ELSE trim(good[i].title.text)
                 /\ result.value[i].price = parse_price(good[i].price.text)

\* a raising container between two containers that lack nothing: the two
\* listings come back in the order of the page
C20_Witness ==
    /\ call.fn = "scrape_modern_blocket"
    /\ call.items = <<c_query, c_raises, c_good>>
    /\ result.kind = "return"
    /\ Len(result.value) = 2
    /\ result.value[1].price = 60
    /\ result.value[2].price = 4500

\* the number a sequence of digits writes: each digit times its power of ten
RECURSIVE Weighted(_)
Weighted(ds) ==
    IF ds = <<>> THEN 0
    ELSE digit_value(Head(ds)) * 10 ^ (Len(ds) - 1) + Weighted(Tail(ds))

\* the integer formed by the digits of a text
DigitsValue(text) == Weighted(SelectSeq(text, LAMBDA c : c \in Range(Digits)))

\* the positions of a call whose container has a price text of positive value
Priced ==
    {i \in 1..Len(call.items) :
        call.items[i].price.present /\ DigitsValue(call.items[i].price.text) > 0}

\* C21: the price of an extracted listing is the integer formed by the digits
\* of its price text, grouping spaces and currency marker left out ("12 345 kr"
\* gives 12345); a container whose price text has no digit or the value 0 is
\* rejected, so no listing has price 0
C21_PriceExtraction ==
    (call.fn \in Strategies /\ result.kind = "return") =>
        LET good == SelectSeq(call.items, WellFormed)
        IN  /\ Len(result.value) = Len(good)
            /\ Len(result.value) <= Cardinality(Priced)
            /\ \A i \in 1..Len(result.value) :
                 /\ result.value[i].price = DigitsValue(good[i].price.text)
                 /\ result.value[i].price > 0
                 /\ good[i].price.text = price_12345 => result.value[i].price = 12345

\* "12 345 kr" has given 12345, and the containers priced "0 kr" and "kr"
\* have given nothing
C21_Witness ==
    /\ call.fn = "scrape_modern_blocket"
    /\ call.items = <<c_zero_price, c_grouped, c_no_digits>>
    /\ result.kind = "return"
    /\ Len(result.value) = 1
    /\ result.value[1].price = 12345

\* C22: the search tag in the notification of a listing is the name of the
\* configured search whose scan returned that listing
C22_SearchTagIsOrigin ==
    (pc = "notify_delay" /\ last_msg.delivery # "none") =>
        last_msg.search_name = searches[found_by[ni]].name

\* control comes to the navigation of a further page of the search, or to the
\* notification of a further listing, only from the sleep before it
C24_Step ==
    /\ (pc' = "goto" /\ fetch_log' # <<>> /\ (pc # "goto" \/ fetch_log' # fetch_log))
          => (pc = "page_delay" /\ fetch_log' = fetch_log)
    /\ (pc' = "notify" /\ ni' > 1 /\ (pc # "notify" \/ ni' # ni))
          => (pc = "notify_delay" /\ sent' = sent)
    /\ (fetch_log' # fetch_log /\ fetch_log' # <<>>) => pc = "goto"
    /\ sent' # sent => (pc = "notify" \/ pc' \in {"idle", "startup"})

\* C24: a delay step stands between any two successive page navigations of
\* one search and between any two successive listing notifications
C24_DelayBetween == [][C24_Step]_vars

\* the previous run has notified two listings, and this run has slept after
\* the first page of a search and is about to fetch the second
C24_Witness ==
    /\ Cardinality(prev.sent) = 2
    /\ pc = "goto"
    /\ page_num = 2
    /\ Len(fetch_log) = 1

\* C25: the notifications for the listings accepted in search i are sent
\* before the first page of search i + 1 is fetched (each search is fetched,
\* extracted, filtered, evaluated and notified before the next one starts)
C25_SearchBySearch ==
    (pc = "goto" /\ search_idx > 1) =>
        \A j \in 1..Len(all_new_listings) :
            found_by[j] < search_idx => sent[all_new_listings[j].id] > 0

\* C26: every verdict analyze_listing returns has a tier among HOT, GOOD,
\* FAIR, BAD; an answer without the verdict field, or with another value in
\* it, gives BAD (the number 0, which fills a missing field, is no tier)
C26_TierInRange ==
    (Analyzed /\ result.kind = "return") =>
        IF AnsweredObject /\ "verdict" \notin DOMAIN call.reply.text.value
        THEN result.value.verdict # 0
        ELSE result.value.verdict \in Tiers

\* the age of a row of the Seen-Set, in days
Age(row) == now - row.created_at

\* the cleanup of a run leaves the rows that are not older than the window,
\* each as it was, and no others; a cleanup that fails leaves the table
C27_Step ==
    pc = "cleanup" =>
        /\ cleaned' = "deleted" =>
              /\ \A row \in seen_listings :
                    row \in seen_listings' <=> ~(Age(row) > RETENTION_DAYS)
              /\ seen_listings' \subseteq seen_listings
        /\ cleaned' # "deleted" => seen_listings' = seen_listings

\* C27: cleanup_old_listings(days) deletes exactly the rows whose first-seen
\* timestamp is older than the retention window and leaves every other row
\* unchanged; with the window of 30 days a row younger than 30 days is never
\* removed by cleanup
C27_CleanupFrame == [][C27_Step]_vars

\* the cleanup has deleted the row of a listing the last search found in the
\* Seen-Set, and has kept a row inserted in this run
C27_Witness ==
    /\ pc = "done"
    /\ cleaned = "deleted"
    /\ \E i \in 1..Len(decisions) :
          /\ decisions[i] = "seen"
          /\ ~is_listing_seen(seen_listings, all_listings[i].id)
    /\ \E row \in seen_listings : row.created_at = now

\* C28: scrape_blocket_search inserts into the Seen-Set exactly the ids of
\* the listings it returns: each step of its loop adds the id of the listing
\* it appends to valid_listings and nothing else, and a candidate that is a
\* duplicate of the batch, already seen or rejected by the filter leaves the
\* Seen-Set as it was
C28_InsertsWhatItReturns ==
    [][(pc = "filter" /\ pc' = "filter") =>
          /\ seen_listings \subseteq seen_listings'
          /\ SeenIdsOf(seen_listings') \ SeenIdsOf(seen_listings) =
                {valid_listings'[i].id :
                    i \in (Len(valid_listings) + 1)..Len(valid_listings')}]_vars

\* C29: within one run a listing id that two or more searches return is
\* accepted and notified at most once: after an earlier search has accepted
\* it, the seen-check of a later search drops it
C29_OncePerRun ==
    InRun =>
        \A x \in Ids :
            /\ Accepted_count(x) <= 1
            /\ pc \in {"filter", "search_end"} =>
                  \A i \in 1..Len(valid_listings) :
                      valid_listings[i].id = x => Accepted_count(x) = 0
            /\ sent[x] <= 1

\* the run is over: main() returned, an exception left it, or the process
\* was terminated
Terminal ==
    \/ pc \in {"done", "crashed"}
    \/ pc = "idle" /\ prev.ended # "none"

\* C30: every run terminates: whatever the outcomes of page fetches,
\* extraction, store operations and deliveries, a started run leaves every
\* wait and reaches its terminal state
C30_RunTerminates == (pc = "startup") ~> Terminal

\* the row mark_listing_seen writes for a call
RowOf(insert) ==
    [id |-> insert.listing.id, title |-> insert.listing.title,
     price |-> insert.listing.price, url |-> insert.listing.url,
     source |-> "blocket", created_at |-> insert.t]

\* the first of the calls applied so far that carries the id
FirstInsert(x) ==
    call.inserts[Min({i \in 1..result.applied : call.inserts[i].listing.id = x})]

\* C23: mark_listing_seen on an id that is in the Seen-Set already is a
\* no-op: it raises nothing and leaves the row of the id (title, price, url,
\* source, first-seen timestamp) as the first insert wrote it, so after any
\* sequence of inserts the Seen-Set holds at most one row per id
C23_InsertIdempotent ==
    (call.fn = "mark_listing_seen" /\ result.kind # "none") =>
        /\ result.kind = "return"
        /\ SeenIdsOf(result.value) =
              {call.inserts[i].listing.id : i \in 1..result.applied}
        /\ \A row \in result.value :
              /\ Cardinality({r \in result.value : r.id = row.id}) = 1
              /\ row = RowOf(FirstInsert(row.id))

\* the same id was inserted twice, at another price and on another day, and
\* the row is the one of the first insert
C23_Witness ==
    /\ call.fn = "mark_listing_seen"
    /\ result.kind = "return"
    /\ result.applied = 2
    /\ call.inserts[1].listing.id = call.inserts[2].listing.id
    /\ call.inserts[1].listing.price # call.inserts[2].listing.price
    /\ call.inserts[1].t < call.inserts[2].t
    /\ result.value = {RowOf(call.inserts[1])}

====
